---- MODULE Spec2Model ----
(***************************************************************************)
(* Model of src/app.py: the Flask application created by create_app().     *)
(* The store is the SQLite database (categories, posts, contact_messages   *)
(* and the AUTOINCREMENT counters), the per-caller Flask session, the      *)
(* ADMIN_PASSWORD environment variable, and the last request/response.     *)
(* Text is modelled as sequences of one-character strings so that strip(), *)
(* lower() and LIKE are computed character by character.                   *)
(***************************************************************************)
EXTENDS Integers, Sequences, FiniteSets, TLC

VARIABLES categories, posts, contact_messages, sqlite_sequence,
          session, ADMIN_PASSWORD, request, response

vars == <<categories, posts, contact_messages, sqlite_sequence,
          session, ADMIN_PASSWORD, request, response>>

store == <<categories, posts, contact_messages, sqlite_sequence>>

(***************************************************************************)
(* Bounds                                                                  *)
(***************************************************************************)
\* number of post ids the posts table may ever assign
MaxPosts == 2
\* number of rows contact_messages may hold
MaxMessages == 1
\* number of post ids the posts table may ever assign when the home feed is
\* filled past its caps
MaxFeedPosts == 12

(***************************************************************************)
(* Python values                                                           *)
(***************************************************************************)
\* None, and a value that is present (dict.get / os.environ.get results)
None == <<>>
Some(v) == <<v>>

\* x or ""   (request.form.get(k) or "")
OrEmpty(x) == IF x = None THEN <<>> ELSE x[1]

\* truthiness of an optional string: None and "" are falsy
Truthy(x) == x # None /\ x[1] # <<>>

RECURSIVE LStrip(_)
LStrip(s) == IF s # <<>> /\ Head(s) = " " THEN LStrip(Tail(s)) ELSE s

RECURSIVE RStrip(_)
RStrip(s) ==
    IF s # <<>> /\ s[Len(s)] = " " THEN RStrip(SubSeq(s, 1, Len(s) - 1)) ELSE s

\* str.strip()
Strip(s) == RStrip(LStrip(s))

UpperChars == <<"A","B","C","D","E","F","G","H","I","J","K","L","M",
                "N","O","P","Q","R","S","T","U","V","W","X","Y","Z">>
LowerChars == <<"a","b","c","d","e","f","g","h","i","j","k","l","m",
                "n","o","p","q","r","s","t","u","v","w","x","y","z">>

LowerChar(c) ==
    IF \E i \in 1..26 : UpperChars[i] = c
    THEN LowerChars[CHOOSE i \in 1..26 : UpperChars[i] = c]
    ELSE c

\* str.lower()
Lower(s) == [i \in 1..Len(s) |-> LowerChar(s[i])]

\* (request.form.get(k) or "").strip()
Field(x) == Strip(OrEmpty(x))

\* (request.form.get(k) or "").strip() or None
FieldOrNone(x) == IF Field(x) = <<>> THEN None ELSE Some(Field(x))

(***************************************************************************)
(* SQLite                                                                  *)
(***************************************************************************)
\* t LIKE pat with SQLite's default LIKE: % is any run of characters, _ is
\* any one character, letters compare case-insensitively, no ESCAPE.
RECURSIVE Like(_, _)
Like(t, pat) ==
    IF pat = <<>> THEN t = <<>>
    ELSE IF Head(pat) = "%"
         THEN Like(t, Tail(pat)) \/ (t # <<>> /\ Like(Tail(t), pat))
    ELSE IF t = <<>> THEN FALSE
    ELSE IF Head(pat) = "_" THEN Like(Tail(t), Tail(pat))
    ELSE LowerChar(Head(pat)) = LowerChar(Head(t)) /\ Like(Tail(t), Tail(pat))

\* ORDER BY id DESC of rows kept in ascending id order
RECURSIVE OrderByIdDesc(_)
OrderByIdDesc(rows) ==
    IF rows = <<>> THEN <<>>
    ELSE OrderByIdDesc(Tail(rows)) \o <<Head(rows)>>

\* a SELECT without its LIMIT
Limit_none(rows, n) == rows

\* LIMIT n
Limit(rows, n) == IF Len(rows) <= n THEN rows ELSE SubSeq(rows, 1, n)

\* the id column of a result
Ids(rows) == [i \in 1..Len(rows) |-> rows[i].id]

\* the orders in which a SELECT without ORDER BY may return its rows
Unordered(rows) == {rows, OrderByIdDesc(rows)}

\* categories with UNIQUE(slug) only
IntegrityError_slug_only(cats, name, slug) ==
    \E i \in 1..Len(cats) : cats[i].slug = slug

\* UNIQUE(name), UNIQUE(slug) on categories: would inserting (name, slug)
\* raise sqlite3.IntegrityError
IntegrityError(cats, name, slug) ==
    \E i \in 1..Len(cats) : cats[i].name = name \/ cats[i].slug = slug

(***************************************************************************)
(* Text literals of the source                                             *)
(***************************************************************************)
admin == <<"a","d","m","i","n">>
job == <<"j","o","b">>
result == <<"r","e","s","u","l","t">>
scheme == <<"s","c","h","e","m","e">>
examcutoff == <<"e","x","a","m","c","u","t","o","f","f">>
currentaffairs == <<"c","u","r","r","e","n","t","a","f","f","a","i","r","s">>

seeds == <<
    [name |-> <<"J","o","b","s">>, slug |-> job],
    [name |-> <<"R","e","s","u","l","t","s">>, slug |-> result],
    [name |-> <<"S","c","h","e","m","e","s">>, slug |-> scheme],
    [name |-> <<"E","x","a","m"," ","C","u","t","o","f","f","s">>, slug |-> examcutoff],
    [name |-> <<"C","u","r","r","e","n","t"," ","A","f","f","a","i","r","s">>,
     slug |-> currentaffairs] >>


(***************************************************************************)
(* Bootstrap                                                               *)
(***************************************************************************)
\* INSERT INTO categories (name, slug): the AUTOINCREMENT id is one more
\* than the largest id the table has ever assigned
InsertCategory(cats, seq, name, slug) ==
    [cats |-> Append(cats, [id |-> seq.categories + 1, name |-> name, slug |-> slug]),
     seq  |-> [seq EXCEPT !.categories = @ + 1]]

\* the seeding loop of init_db from seed i on; existing is read once, before
\* the loop, and INSERT OR IGNORE skips a row that breaks a UNIQUE constraint
RECURSIVE SeedFrom(_, _, _, _)
SeedFrom(i, existing, cats, seq) ==
    IF i > Len(seeds) THEN [cats |-> cats, seq |-> seq]
    ELSE IF seeds[i].slug \notin existing
            /\ ~IntegrityError(cats, seeds[i].name, seeds[i].slug)
         THEN LET ins == InsertCategory(cats, seq, seeds[i].name, seeds[i].slug)
              IN  SeedFrom(i + 1, existing, ins.cats, ins.seq)
         ELSE SeedFrom(i + 1, existing, cats, seq)

\* a bootstrap that inserts every seed whatever the table holds
init_db_reseed(cats, seq) ==
    [cats |-> cats \o [i \in 1..Len(seeds) |->
                 [id |-> seq.categories + i, name |-> seeds[i].name, slug |-> seeds[i].slug]],
     seq  |-> [seq EXCEPT !.categories = @ + Len(seeds)]]

\* init_db() applied to a store: CREATE TABLE IF NOT EXISTS keeps the rows
init_db(cats, seq) ==
    SeedFrom(1, {cats[i].slug : i \in 1..Len(cats)}, cats, seq)

EmptySequence == [categories |-> 0, posts |-> 0, contact_messages |-> 0]

(***************************************************************************)
(* Sessions                                                                *)
(***************************************************************************)
Callers == {"A", "B"}

\* a Flask session is a dict; the only key the application sets is "admin"
EmptySession == [k \in {} |-> TRUE]
AdminSession == [k \in {"admin"} |-> TRUE]

\* session.get(k)
SessionGet(s, k) == IF k \in DOMAIN s THEN s[k] ELSE FALSE

\* the test of admin_required
IsAdmin(c) == SessionGet(session[c], "admin")

(***************************************************************************)
(* Requests and responses                                                  *)
(***************************************************************************)
NoArgs == [k \in {} |-> None]
NoContext == [k \in {} |-> None]
NoCaller == "-"

Request(op, caller, path, args) ==
    [op |-> op, caller |-> caller, path |-> path, args |-> args]

\* what a handler did to the database file
Db(connects, executes, commits) ==
    [connects |-> connects, executes |-> executes, commits |-> commits]

\* url_for(endpoint) and url_for("admin_login", next=path)
Url(path) == [path |-> path, next |-> None]
LoginUrl(next) == [path |-> <<"/admin/login">>, next |-> Some(next)]
NoUrl == [path |-> <<>>, next |-> None]

\* render_template(template, **context)
Render(template, context, db) ==
    [status |-> 200, location |-> NoUrl, flash |-> "", template |-> template,
     context |-> context, db |-> db]

\* redirect(location) after flash(message)
Redirect(location, flash, db) ==
    [status |-> 302, location |-> location, flash |-> flash, template |-> "",
     context |-> NoContext, db |-> db]

\* abort(404), rendered by not_found
NotFound(db) ==
    [status |-> 404, location |-> NoUrl, flash |-> "", template |-> "404.html",
     context |-> NoContext, db |-> db]

\* Response(text, mimetype)
Body(lines, db) ==
    [status |-> 200, location |-> NoUrl, flash |-> "", template |-> "",
     context |-> [body |-> lines], db |-> db]

\* SELECT cols FROM ...
Columns(rows, cols) == [i \in 1..Len(rows) |-> [c \in cols |-> rows[i][c]]]


\* cursor.fetchone()
FetchOne(rows) == IF rows = <<>> THEN None ELSE Some(rows[1])

(***************************************************************************)
(* Inputs                                                                  *)
(***************************************************************************)
\* the <slug> of GET /category/<slug>
SlugInputs == {job, result, <<"n","e","w","s">>, <<"n","o">>}

\* the <int:post_id> of the post routes
PostIdInputs == 1..(MaxPosts + 1)

\* the q of GET /search?q=
QueryInputs == {None, Some(<<>>), Some(<<" ">>), Some(<<" ","a"," ">>),
                Some(<<"_">>), Some(<<"%">>), Some(<<"z">>)}

\* request.host_url
HostUrlInputs == {<<"http://a.test", "/">>}

\* datetime.now().strftime("%Y-%m-%d %H:%M")
NowInputs == {"2024-01-01 10:00"}

\* no request is being handled: the server is waiting for one
NoRequest == Request("", NoCaller, <<>>, NoArgs)
NoResponse == Render("", NoContext, Db(0, 0, 0))
Idle == request = NoRequest

(***************************************************************************)
(* Public reads                                                            *)
(***************************************************************************)
\* SELECT name, slug FROM categories ORDER BY id
all_categories == Columns(categories, {"name", "slug"})

\* SELECT name, slug FROM categories WHERE slug=?   (fetchone)
category_by_slug(slug) ==
    FetchOne(Columns(SelectSeq(categories, LAMBDA c : c.slug = slug), {"name", "slug"}))

\* home.latest_for: WHERE category_slug=? AND is_published=1 ORDER BY id DESC LIMIT ?
latest_for(slug, limit) ==
    Columns(Limit(OrderByIdDesc(SelectSeq(posts,
                LAMBDA p : p.category_slug = slug /\ p.is_published = 1)), limit),
            {"id", "title", "summary", "created_at"})

\* home: WHERE is_published=1 ORDER BY id DESC LIMIT 10
latest_posts ==
    Columns(Limit(OrderByIdDesc(SelectSeq(posts, LAMBDA p : p.is_published = 1)), 10),
            {"id", "title", "category_slug", "summary", "created_at"})

\* category: WHERE category_slug=? AND is_published=1 ORDER BY id DESC
category_posts(slug) ==
    Columns(OrderByIdDesc(SelectSeq(posts,
                LAMBDA p : p.category_slug = slug /\ p.is_published = 1)),
            {"id", "title", "summary", "created_at"})

\* post without the is_published=1 condition
published_post_any(post_id) ==
    FetchOne(SelectSeq(posts, LAMBDA p : p.id = post_id))

\* post: SELECT * FROM posts WHERE id=? AND is_published=1   (fetchone)
published_post(post_id) ==
    FetchOne(SelectSeq(posts, LAMBDA p : p.id = post_id /\ p.is_published = 1))

\* search: WHERE is_published=1 AND (title LIKE ? OR summary LIKE ? OR
\* content LIKE ?) ORDER BY id DESC, with like = f"%{q}%"
search_posts(q) ==
    LET like == <<"%">> \o q \o <<"%">>
    IN  Columns(OrderByIdDesc(SelectSeq(posts,
                    LAMBDA p : /\ p.is_published = 1
                               /\ \/ Like(p.title, like)
                                  \/ Like(p.summary, like)
                                  \/ Like(p.content, like))),
                {"id", "title", "summary", "created_at", "category_slug"})

\* GET /
home_response ==
    Render("index.html",
           [cats |-> all_categories,
            jobs |-> latest_for(job, 8),
            results |-> latest_for(result, 6),
            schemes |-> latest_for(scheme, 6),
            examcutoffs |-> latest_for(examcutoff, 6),
            current_affairs |-> latest_for(currentaffairs, 8),
            latest |-> latest_posts],
           Db(1, 7, 0))

\* GET /category/<slug>
category_response(slug) ==
    LET cat == category_by_slug(slug)
    IN  IF cat = None THEN NotFound(Db(1, 1, 0))
        ELSE Render("category.html",
                    [category |-> cat[1], posts |-> category_posts(slug)],
                    Db(1, 2, 0))

\* GET /post/<int:post_id>
post_response(post_id) ==
    LET p == published_post(post_id)
    IN  IF p = None THEN NotFound(Db(1, 1, 0))
        ELSE Render("post.html",
                    [post |-> p[1], category |-> category_by_slug(p[1].category_slug)],
                    Db(1, 2, 0))

\* GET /search: the connection is opened before q is tested
search_response(arg) ==
    LET q == Field(arg)
    IN  IF q # <<>>
        THEN Render("search.html", [q |-> q, posts |-> search_posts(q)], Db(1, 1, 0))
        ELSE Render("search.html", [q |-> q, posts |-> <<>>], Db(1, 0, 0))

\* str.rstrip("/") of a URL held as a sequence of tokens
RECURSIVE RStripSlash(_)
RStripSlash(u) ==
    IF u # <<>> /\ u[Len(u)] = "/" THEN RStripSlash(SubSeq(u, 1, Len(u) - 1)) ELSE u

\* the urls list of sitemap, given the rows the two SELECTs returned
sitemap_urls(base_url, cats, ps) ==
    <<base_url \o <<"/">>>>
    \o [i \in 1..Len(cats) |-> base_url \o <<"/category/">> \o cats[i].slug]
    \o [i \in 1..Len(ps) |-> base_url \o <<"/post/", ToString(ps[i].id)>>]

\* the three lines of one url entry, for each url
RECURSIVE url_entries(_)
url_entries(urls) ==
    IF urls = <<>> THEN <<>>
    ELSE << <<"  <url>">>, <<"    <loc>">> \o Head(urls) \o <<"</loc>">>, <<"  </url>">> >>
         \o url_entries(Tail(urls))

\* the xml list of sitemap
sitemap_xml(urls) ==
    << <<"<?xml version=\"1.0\" encoding=\"UTF-8\"?>">>,
       <<"<urlset xmlns=\"http://www.sitemaps.org/schemas/sitemap/0.9\">">> >>
    \o url_entries(urls)
    \o << <<"</urlset>">> >>

\* the sitemap without the is_published=1 condition
sitemap_responses_all(host_url) ==
    { Body(sitemap_xml(sitemap_urls(RStripSlash(host_url), cats, ps)), Db(1, 2, 0)) :
        cats \in Unordered(Columns(categories, {"slug"})),
        ps \in Unordered(Columns(posts, {"id"})) }

\* GET /sitemap.xml; neither SELECT has an ORDER BY
sitemap_responses(host_url) ==
    { Body(sitemap_xml(sitemap_urls(RStripSlash(host_url), cats, ps)), Db(1, 2, 0)) :
        cats \in Unordered(Columns(categories, {"slug"})),
        ps \in Unordered(Columns(SelectSeq(posts, LAMBDA p : p.is_published = 1), {"id"})) }

home ==
    /\ Idle
    /\ request' = Request("home", NoCaller, <<"/">>, NoArgs)
    /\ response' = home_response
    /\ UNCHANGED <<store, session, ADMIN_PASSWORD>>

category ==
    \E slug \in SlugInputs :
        /\ Idle
        /\ request' = Request("category", NoCaller, <<"/category/">> \o slug, [slug |-> slug])
        /\ response' = category_response(slug)
        /\ UNCHANGED <<store, session, ADMIN_PASSWORD>>

post ==
    \E post_id \in PostIdInputs :
        /\ Idle
        /\ request' = Request("post", NoCaller, <<"/post/", ToString(post_id)>>,
                              [post_id |-> post_id])
        /\ response' = post_response(post_id)
        /\ UNCHANGED <<store, session, ADMIN_PASSWORD>>

search ==
    \E q \in QueryInputs :
        /\ Idle
        /\ request' = Request("search", NoCaller, <<"/search">>, [q |-> q])
        /\ response' = search_response(q)
        /\ UNCHANGED <<store, session, ADMIN_PASSWORD>>

sitemap ==
    \E host_url \in HostUrlInputs :
        /\ Idle
        /\ request' = Request("sitemap", NoCaller, <<"/sitemap.xml">>, [host_url |-> host_url])
        /\ response' \in sitemap_responses(host_url)
        /\ UNCHANGED <<store, session, ADMIN_PASSWORD>>


\* GET /robots.txt
robots ==
    \E host_url \in HostUrlInputs :
        /\ Idle
        /\ request' = Request("robots", NoCaller, <<"/robots.txt">>, [host_url |-> host_url])
        /\ response' = Body(<< <<"User-agent: *">>, <<"Allow: /">>, <<>>,
                               <<"Sitemap: ">> \o RStripSlash(host_url) \o <<"/sitemap.xml">> >>,
                            Db(0, 0, 0))
        /\ UNCHANGED <<store, session, ADMIN_PASSWORD>>

(***************************************************************************)
(* Contact                                                                 *)
(***************************************************************************)
ContactForms == {
    [name |-> Some(<<"n">>), email |-> Some(<<"e"," ">>), message |-> Some(<<"m">>)],
    [name |-> Some(<<"n">>), email |-> Some(<<" ">>), message |-> None] }

\* GET /contact
contact ==
    /\ Idle
    /\ request' = Request("contact", NoCaller, <<"/contact">>, NoArgs)
    /\ response' = Render("contact.html", NoContext, Db(0, 0, 0))
    /\ UNCHANGED <<store, session, ADMIN_PASSWORD>>

\* POST /contact
contact_post ==
    \E form \in ContactForms, now \in NowInputs :
        LET name == Field(form.name)
            email == Field(form.email)
            message == Field(form.message)
        IN  /\ Idle
            /\ request' = Request("contact_post", NoCaller, <<"/contact">>, form)
            /\ IF ~(name # <<>> /\ email # <<>> /\ message # <<>>)
               THEN /\ response' = Redirect(Url(<<"/contact">>), "All fields required.",
                                            Db(0, 0, 0))
                    /\ UNCHANGED store
               ELSE /\ Len(contact_messages) < MaxMessages
                    /\ contact_messages' = Append(contact_messages,
                            [id |-> sqlite_sequence.contact_messages + 1, name |-> name,
                             email |-> email, message |-> message, created_at |-> now])
                    /\ sqlite_sequence' = [sqlite_sequence EXCEPT !.contact_messages = @ + 1]
                    /\ response' = Redirect(Url(<<"/contact">>), "Message sent successfully",
                                            Db(1, 1, 1))
                    /\ UNCHANGED <<categories, posts>>
            /\ UNCHANGED <<session, ADMIN_PASSWORD>>

(***************************************************************************)
(* Admin session gate                                                      *)
(***************************************************************************)
\* the values ADMIN_PASSWORD may have in the environment of the process
AdminPasswordInputs == {None, Some(<<>>), Some(<<"p","w">>), Some(<<"p","w"," ">>)}

\* the next parameter carried by the login form
NextInputs == {None, Some(<<"/admin/messages">>)}

LoginForms == {
    [username |-> Some(admin), password |-> Some(<<"p","w">>), next |-> None],
    [username |-> Some(<<" ">> \o admin), password |-> Some(<<"p","w"," ">>),
     next |-> Some(<<"/admin/messages">>)],
    [username |-> Some(admin), password |-> Some(<<" ">>), next |-> None],
    [username |-> Some(admin), password |-> None, next |-> None],
    [username |-> Some(<<"r","o","o","t">>), password |-> Some(<<"p","w">>), next |-> None],
    [username |-> None, password |-> Some(<<"p","w">>), next |-> None] }

\* GET /admin/login
admin_login ==
    \E c \in Callers, next \in NextInputs :
        /\ Idle
        /\ request' = Request("admin_login", c, <<"/admin/login">>, [next |-> next])
        /\ response' =
             [Render("admin_login.html",
                     [next |-> IF next = None THEN <<"/admin">> ELSE next[1]], Db(0, 0, 0))
              EXCEPT !.flash = IF ~Truthy(ADMIN_PASSWORD) THEN "admin login disabled" ELSE ""]
        /\ UNCHANGED <<store, session, ADMIN_PASSWORD>>

\* the credential test without the test that a secret is configured
check_login_unconfigured(username, password, admin_password) ==
    IF username = admin /\ Some(password) = admin_password THEN "ok" ELSE "wrong"

\* the credential test without the comparison of the username
check_login_any_user(username, password, admin_password) ==
    IF ~Truthy(admin_password) THEN "disabled"
    ELSE IF Some(password) = admin_password THEN "ok"
    ELSE "wrong"

\* the credential test of admin_login_post: "disabled", "ok" or "wrong"
check_login(username, password, admin_password) ==
    IF ~Truthy(admin_password) THEN "disabled"
    ELSE IF username = admin /\ Some(password) = admin_password THEN "ok"
    ELSE "wrong"

\* a login that always forwards to the dashboard
login_next_url_fixed(next) == <<"/admin">>

\* next_url = request.form.get("next") or "/admin"
login_next_url(next) == IF Truthy(next) THEN next[1] ELSE <<"/admin">>

\* an admin flag shared by every caller
login_session_global(sess, c) ==
    [d \in DOMAIN sess |-> [k \in DOMAIN sess[d] \cup {"admin"} |-> TRUE]]

\* session["admin"] = True, in the session of the caller
login_session(sess, c) ==
    [sess EXCEPT ![c] = [k \in DOMAIN @ \cup {"admin"} |-> TRUE]]

\* POST /admin/login
admin_login_post ==
    \E c \in Callers, form \in LoginForms :
        LET username == Field(form.username)
            password == Field(form.password)
            next_url == login_next_url(form.next)
            outcome == check_login(username, password, ADMIN_PASSWORD)
        IN  /\ Idle
            /\ request' = Request("admin_login_post", c, <<"/admin/login">>, form)
            /\ IF outcome = "disabled"
               THEN /\ response' = Redirect(Url(<<"/admin/login">>), "admin login disabled",
                                            Db(0, 0, 0))
                    /\ UNCHANGED session
               ELSE IF outcome = "ok"
               THEN /\ session' = login_session(session, c)
                    /\ response' = Redirect(Url(next_url), "Admin login successful",
                                            Db(0, 0, 0))
               ELSE /\ response' = Redirect(Url(<<"/admin/login">>), "Wrong username/password",
                                            Db(0, 0, 0))
                    /\ UNCHANGED session
            /\ UNCHANGED <<store, ADMIN_PASSWORD>>

\* a logout that keeps the session
session_keep(s) == s

\* session.clear()
session_clear(s) == EmptySession

\* GET /admin/logout
admin_logout ==
    \E c \in Callers :
        /\ Idle
        /\ request' = Request("admin_logout", c, <<"/admin/logout">>, NoArgs)
        /\ session' = [session EXCEPT ![c] = session_clear(@)]
        /\ response' = Redirect(Url(<<"/">>), "Logged out.", Db(0, 0, 0))
        /\ UNCHANGED <<store, ADMIN_PASSWORD>>

\* admin_required without the session test
admin_required_open(c, path, fn) == fn

\* the wrapper of admin_required around the handler fn
admin_required(c, path, fn) ==
    IF ~SessionGet(session[c], "admin")
    THEN /\ response' = Redirect(LoginUrl(path), "", Db(0, 0, 0))
         /\ UNCHANGED <<store, session, ADMIN_PASSWORD>>
    ELSE fn


(***************************************************************************)
(* Admin                                                                   *)
(***************************************************************************)
draft == <<"d","r","a","f","t">>
published == <<"p","u","b","l","i","s","h","e","d">>

DashboardArgs == {
    [category |-> None, status |-> None],
    [category |-> Some(<<" ">> \o job), status |-> Some(draft)],
    [category |-> None, status |-> Some(published)] }

CategoryForms == {
    [name |-> Some(<<"N","e","w","s">>), slug |-> Some(<<" ","N","e","w","s">>)],
    [name |-> Some(<<" ","J","o","b","s"," ">>), slug |-> Some(<<"j","b">>)],
    [name |-> Some(<<"J","2">>), slug |-> Some(<<"J","O","B"," ">>)],
    [name |-> Some(<<"J","o","b","s">>), slug |-> Some(<<" ">>)],
    [name |-> None, slug |-> Some(job)] }

PostForms == {
    [title |-> Some(<<" ","A","b">>), category_slug |-> Some(job),
     summary |-> Some(<<"s">>), content |-> Some(<<"c">>),
     source_url |-> Some(<<" ">>), is_published |-> Some(<<"1">>)],
    [title |-> Some(<<" ","A","b">>), category_slug |-> Some(job),
     summary |-> Some(<<"s">>), content |-> Some(<<"c">>),
     source_url |-> Some(<<" ">>), is_published |-> None],
    [title |-> Some(<<"x","_">>), category_slug |-> Some(<<"n","e","w","s"," ">>),
     summary |-> Some(<<"%">>), content |-> Some(<<"c">>),
     source_url |-> Some(<<"u">>), is_published |-> Some(<<"0">>)],
    [title |-> Some(<<" ">>), category_slug |-> Some(job),
     summary |-> None, content |-> Some(<<"c">>),
     source_url |-> None, is_published |-> Some(<<"1">>)] }

\* GET /admin
admin_dashboard ==
    \E c \in Callers, args \in DashboardArgs :
        LET category_filter == Field(args.category)
            status_filter == Field(args.status)
            rows == SelectSeq(posts,
                      LAMBDA p : /\ category_filter # <<>> => p.category_slug = category_filter
                                 /\ status_filter = published => p.is_published = 1
                                 /\ status_filter = draft => p.is_published = 0)
        IN  /\ Idle
            /\ request' = Request("admin_dashboard", c, <<"/admin">>, args)
            /\ admin_required(c, <<"/admin">>,
                 /\ response' = Render("admin.html",
                        [cats |-> all_categories,
                         posts |-> Columns(Limit(OrderByIdDesc(rows), 100),
                             {"id", "title", "category_slug", "created_at", "is_published"})],
                        Db(1, 2, 0))
                 /\ UNCHANGED <<store, session, ADMIN_PASSWORD>>)

\* GET /admin/messages
admin_messages ==
    \E c \in Callers :
        /\ Idle
        /\ request' = Request("admin_messages", c, <<"/admin/messages">>, NoArgs)
        /\ admin_required(c, <<"/admin/messages">>,
             /\ response' = Render("admin_messages.html",
                    [messages |-> Limit(OrderByIdDesc(contact_messages), 200)], Db(1, 1, 0))
             /\ UNCHANGED <<store, session, ADMIN_PASSWORD>>)

\* the body of admin_add_category: the categories table and the response
add_category(name, slug) ==
    IF name = <<>> \/ slug = <<>>
    THEN /\ response' = Redirect(Url(<<"/admin">>), "Category name + slug required.",
                                 Db(0, 0, 0))
         /\ UNCHANGED <<categories, sqlite_sequence>>
    ELSE IF IntegrityError(categories, name, slug)
    THEN /\ response' = Redirect(Url(<<"/admin">>), "slug/name already exists",
                                 Db(1, 1, 0))
         /\ UNCHANGED <<categories, sqlite_sequence>>
    ELSE LET ins == InsertCategory(categories, sqlite_sequence, name, slug)
         IN  /\ categories' = ins.cats
             /\ sqlite_sequence' = ins.seq
             /\ response' = Redirect(Url(<<"/admin">>), "Category added", Db(1, 1, 1))

\* POST /admin/category/add
admin_add_category ==
    \E c \in Callers, form \in CategoryForms :
        /\ Idle
        /\ request' = Request("admin_add_category", c, <<"/admin/category/add">>, form)
        /\ admin_required(c, <<"/admin/category/add">>,
             /\ add_category(Field(form.name), Lower(Field(form.slug)))
             /\ UNCHANGED <<posts, contact_messages, session, ADMIN_PASSWORD>>)

\* the forms sent to POST /admin/post/add: those of the edit form, and one
\* form for each required field that is the only one left blank
AddPostForms ==
    PostForms \cup {
    [title |-> Some(<<" "," ">>), category_slug |-> Some(job),
     summary |-> Some(<<"s">>), content |-> Some(<<"c">>),
     source_url |-> None, is_published |-> None],
    [title |-> Some(<<"A","b">>), category_slug |-> Some(<<" ">>),
     summary |-> Some(<<"s">>), content |-> Some(<<"c">>),
     source_url |-> None, is_published |-> None],
    [title |-> Some(<<"A","b">>), category_slug |-> Some(job),
     summary |-> Some(<<>>), content |-> Some(<<"c">>),
     source_url |-> None, is_published |-> None],
    [title |-> Some(<<"A","b">>), category_slug |-> Some(job),
     summary |-> Some(<<"s">>), content |-> None,
     source_url |-> None, is_published |-> None] }

\* an id one more than the largest id now in the table (a rowid that is
\* not AUTOINCREMENT)
autoincrement_reuse(rows, last) ==
    IF rows = <<>> THEN 1 ELSE rows[Len(rows)].id + 1

\* id INTEGER PRIMARY KEY AUTOINCREMENT: one more than the largest id the
\* table has ever held, which sqlite_sequence remembers across deletes
autoincrement(rows, last) ==
    LET used == {rows[i].id : i \in 1..Len(rows)} \cup {last}
    IN  (CHOOSE m \in used : \A n \in used : n <= m) + 1

\* the required-field test without content
required_fields_but_content(title, category_slug, summary, content) ==
    title # <<>> /\ category_slug # <<>> /\ summary # <<>>

\* title and category_slug and summary and content of admin_add_post
required_fields(title, category_slug, summary, content) ==
    title # <<>> /\ category_slug # <<>> /\ summary # <<>> /\ content # <<>>

\* the handler of POST /admin/post/add for forms drawn from the given set,
\* while the posts table has assigned fewer than max ids
add_post(forms, max) ==
    \E c \in Callers, form \in forms, now \in NowInputs :
        LET title == Field(form.title)
            category_slug == Field(form.category_slug)
            summary == Field(form.summary)
            content == Field(form.content)
            source_url == FieldOrNone(form.source_url)
        IN  /\ Idle
            /\ request' = Request("admin_add_post", c, <<"/admin/post/add">>, form)
            /\ admin_required(c, <<"/admin/post/add">>,
                 /\ IF ~required_fields(title, category_slug, summary, content)
                    THEN /\ response' = Redirect(Url(<<"/admin">>),
                                "Title, Category, Summary, Content required.", Db(0, 0, 0))
                         /\ UNCHANGED <<posts, sqlite_sequence>>
                    ELSE /\ sqlite_sequence.posts < max
                         /\ posts' = Append(posts,
                                [id |-> autoincrement(posts, sqlite_sequence.posts),
                                 title |-> title,
                                 category_slug |-> category_slug, summary |-> summary,
                                 content |-> content, source_url |-> source_url,
                                 created_at |-> now, is_published |-> 1])
                         /\ sqlite_sequence' = [sqlite_sequence EXCEPT !.posts = @ + 1]
                         /\ response' = Redirect(Url(<<"/admin">>), "Post added", Db(1, 1, 1))
                 /\ UNCHANGED <<categories, contact_messages, session, ADMIN_PASSWORD>>)

\* POST /admin/post/add
admin_add_post == add_post(AddPostForms, MaxPosts)

\* GET /admin/post/<int:post_id>/edit
admin_edit_post ==
    \E c \in Callers, post_id \in PostIdInputs :
        LET path == <<"/admin/post/", ToString(post_id), "/edit">>
            p == FetchOne(SelectSeq(posts, LAMBDA r : r.id = post_id))
        IN  /\ Idle
            /\ request' = Request("admin_edit_post", c, path, [post_id |-> post_id])
            /\ admin_required(c, path,
                 /\ response' = IF p = None THEN NotFound(Db(1, 2, 0))
                                ELSE Render("admin_edit.html",
                                            [post |-> p[1], cats |-> all_categories],
                                            Db(1, 2, 0))
                 /\ UNCHANGED <<store, session, ADMIN_PASSWORD>>)

\* an UPDATE that does not write is_published
update_post_keep_published(rows, post_id, title, category_slug, summary, content, source_url, is_published) ==
    [i \in 1..Len(rows) |->
        IF rows[i].id = post_id
        THEN [rows[i] EXCEPT !.title = title, !.category_slug = category_slug,
                             !.summary = summary, !.content = content,
                             !.source_url = source_url]
        ELSE rows[i]]

\* UPDATE posts SET title=?, category_slug=?, summary=?, content=?,
\* source_url=?, is_published=? WHERE id=?
update_post(rows, post_id, title, category_slug, summary, content, source_url, is_published) ==
    [i \in 1..Len(rows) |->
        IF rows[i].id = post_id
        THEN [rows[i] EXCEPT !.title = title, !.category_slug = category_slug,
                             !.summary = summary, !.content = content,
                             !.source_url = source_url, !.is_published = is_published]
        ELSE rows[i]]

\* POST /admin/post/<int:post_id>/edit
admin_edit_post_post ==
    \E c \in Callers, post_id \in PostIdInputs, form \in PostForms :
        LET path == <<"/admin/post/", ToString(post_id), "/edit">>
            is_published == IF form.is_published = Some(<<"1">>) THEN 1 ELSE 0
        IN  /\ Idle
            /\ request' = Request("admin_edit_post_post", c, path,
                                  [form EXCEPT !.is_published = @] @@ [post_id |-> post_id])
            /\ admin_required(c, path,
                 /\ posts' = update_post(posts, post_id, Field(form.title),
                                Field(form.category_slug), Field(form.summary),
                                Field(form.content), FieldOrNone(form.source_url),
                                is_published)
                 /\ response' = Redirect(Url(<<"/admin">>), "Post updated", Db(1, 1, 1))
                 /\ UNCHANGED <<categories, contact_messages, sqlite_sequence, session,
                                ADMIN_PASSWORD>>)

\* a DELETE that removes the oldest row when no row has the id
delete_post_or_oldest(rows, post_id) ==
    IF \E i \in 1..Len(rows) : rows[i].id = post_id
    THEN SelectSeq(rows, LAMBDA r : r.id # post_id)
    ELSE IF rows = <<>> THEN rows ELSE Tail(rows)

\* DELETE FROM posts WHERE id=?
delete_post(rows, post_id) == SelectSeq(rows, LAMBDA r : r.id # post_id)

\* POST /admin/post/<int:post_id>/delete
admin_delete_post ==
    \E c \in Callers, post_id \in PostIdInputs :
        LET path == <<"/admin/post/", ToString(post_id), "/delete">>
        IN  /\ Idle
            /\ request' = Request("admin_delete_post", c, path, [post_id |-> post_id])
            /\ admin_required(c, path,
                 /\ posts' = delete_post(posts, post_id)
                 /\ response' = Redirect(Url(<<"/admin">>), "Post deleted", Db(1, 1, 1))
                 /\ UNCHANGED <<categories, contact_messages, sqlite_sequence, session,
                                ADMIN_PASSWORD>>)

\* the server process is started again on the database file it left:
\* create_app() runs init_db() before any request is served
create_app ==
    /\ Idle
    /\ request' = Request("create_app", NoCaller, <<>>, NoArgs)
    /\ response' = NoResponse
    /\ categories' = init_db(categories, sqlite_sequence).cats
    /\ sqlite_sequence' = init_db(categories, sqlite_sequence).seq
    /\ UNCHANGED <<posts, contact_messages, session, ADMIN_PASSWORD>>

\* app.run: requests are served one at a time; the response is sent to
\* the caller and the server waits for the next request
serve ==
    /\ ~Idle
    /\ request' = NoRequest
    /\ response' = NoResponse
    /\ UNCHANGED <<store, session, ADMIN_PASSWORD>>

(***************************************************************************)
(* Specification                                                           *)
(***************************************************************************)
\* the state after create_app(): init_db() has run on an empty database, no
\* caller has a session yet, and no request has been served
Init ==
    /\ categories = init_db(<<>>, EmptySequence).cats
    /\ sqlite_sequence = init_db(<<>>, EmptySequence).seq
    /\ posts = <<>>
    /\ contact_messages = <<>>
    /\ session = [c \in Callers |-> EmptySession]
    /\ ADMIN_PASSWORD \in AdminPasswordInputs
    /\ request = NoRequest
    /\ response = NoResponse

Next ==
    \/ home
    \/ category
    \/ post
    \/ search
    \/ sitemap
    \/ robots
    \/ contact
    \/ contact_post
    \/ admin_login
    \/ admin_login_post
    \/ admin_logout
    \/ admin_dashboard
    \/ admin_messages
    \/ admin_add_category
    \/ admin_add_post
    \/ admin_edit_post
    \/ admin_edit_post_post
    \/ admin_delete_post
    \/ create_app
    \/ serve

Spec == Init /\ [][Next]_vars

(***************************************************************************)
(* Specification of a filled home feed: the admin has already created      *)
(* posts in one home category and unpublished some of them, goes on        *)
(* creating posts, and the home page is read in between                    *)
(***************************************************************************)
\* the categories that have a section on the home page
HomeSlugs == {job, result, scheme, examcutoff, currentaffairs}

\* the form the admin sends to POST /admin/post/add
FeedForms == {
    [title |-> Some(<<"A","b">>), category_slug |-> Some(job),
     summary |-> Some(<<"s">>), content |-> Some(<<"c">>),
     source_url |-> None, is_published |-> None] }

\* the ids the admin has unpublished, of the n posts created so far: none,
\* the newest, the oldest, or every second one
UnpublishedInputs(n) ==
    {{}, {n} \cap (1..n), {1} \cap (1..n), {i \in 1..n : i % 2 = 0}}

\* the posts table after n posts were created in the category slug and
\* those with an id in unpublished were edited to drafts
feed_posts(n, slug, unpublished) ==
    [i \in 1..n |->
        [id |-> i, title |-> <<"A","b">>, category_slug |-> slug,
         summary |-> <<"s">>, content |-> <<"c">>, source_url |-> None,
         created_at |-> CHOOSE now \in NowInputs : TRUE,
         is_published |-> IF i \in unpublished THEN 0 ELSE 1]]

feed_add_post == add_post(FeedForms, MaxFeedPosts)

InitFeed ==
    \E n \in 0..MaxFeedPosts, slug \in HomeSlugs :
    \E unpublished \in UnpublishedInputs(n) :
        /\ categories = init_db(<<>>, EmptySequence).cats
        /\ posts = feed_posts(n, slug, unpublished)
        /\ sqlite_sequence = [init_db(<<>>, EmptySequence).seq EXCEPT !.posts = n]
        /\ contact_messages = <<>>
        /\ session = [c \in Callers |-> IF c = "A" THEN AdminSession ELSE EmptySession]
        /\ ADMIN_PASSWORD = Some(<<"p","w">>)
        /\ request = NoRequest
        /\ response = NoResponse

NextFeed ==
    \/ home
    \/ feed_add_post
    \/ serve

SpecFeed == InitFeed /\ [][NextFeed]_vars


(***************************************************************************)
(* Specification of concurrent category creation: each caller's request    *)
(* is served by a thread of its own, and the steps of admin_add_category   *)
(* (get_db, the INSERT, the commit, the return) of two threads interleave. *)
(* Here request[c] is the thread serving caller c and response[c] the      *)
(* response it has built.                                                  *)
(***************************************************************************)
\* a thread: the request it serves, its position in admin_add_category
\* ("idle", "connected" after get_db(), "inserted" with its INSERT not yet
\* committed, "done" with the response built) and whether its INSERT has
\* waited in the busy handler of SQLite
Thread(req, pc, busy) == [req |-> req, pc |-> pc, busy |-> busy]
NoThread == Thread(NoRequest, "idle", FALSE)

\* forms with the same slug under two names, the same name under two slugs,
\* and a blank name
ConcurrentForms == {
    [name |-> Some(<<"N","e","w","s">>), slug |-> Some(<<"n","e","w","s">>)],
    [name |-> Some(<<"N","2">>), slug |-> Some(<<" ","N","e","w","s">>)],
    [name |-> Some(<<"N","e","w","s"," ">>), slug |-> Some(<<"n","w">>)],
    [name |-> Some(<<" ">>), slug |-> Some(<<"n","e","w","s">>)] }

\* the name and the slug admin_add_category takes from the form of thread c
thread_name(c) == Field(request[c].req.args.name)
thread_slug(c) == Lower(Field(request[c].req.args.slug))

\* a database that lets any connection write at any time
write_lock_ignored(c) == TRUE

\* SQLite lets one connection write at a time: the INSERT of thread c can
\* run only while no other connection holds an uncommitted INSERT
write_lock_free(c) == \A d \in Callers \ {c} : request[d].pc # "inserted"

\* admin_required, the reading of the form, its validation and get_db()
add_category_begin(c) ==
    \E form \in ConcurrentForms :
        LET req == Request("admin_add_category", c, <<"/admin/category/add">>, form)
        IN  /\ request[c].pc = "idle"
            /\ IF ~SessionGet(session[c], "admin")
               THEN /\ request' = [request EXCEPT ![c] = Thread(req, "done", FALSE)]
                    /\ response' = [response EXCEPT ![c] =
                            Redirect(LoginUrl(req.path), "", Db(0, 0, 0))]
               ELSE IF Field(form.name) = <<>> \/ Lower(Field(form.slug)) = <<>>
               THEN /\ request' = [request EXCEPT ![c] = Thread(req, "done", FALSE)]
                    /\ response' = [response EXCEPT ![c] =
                            Redirect(Url(<<"/admin">>), "Category name + slug required.",
                                     Db(0, 0, 0))]
               ELSE /\ request' = [request EXCEPT ![c] = Thread(req, "connected", FALSE)]
                    /\ UNCHANGED response
            /\ UNCHANGED <<store, session, ADMIN_PASSWORD>>

\* con.execute(INSERT) finds the database locked by another connection and
\* waits in the busy handler
add_category_busy(c) ==
    /\ request[c].pc = "connected"
    /\ ~write_lock_free(c)
    /\ ~request[c].busy
    /\ request' = [request EXCEPT ![c].busy = TRUE]
    /\ UNCHANGED <<store, session, ADMIN_PASSWORD, response>>

\* con.execute(INSERT): sqlite3.IntegrityError is caught and reported, else
\* the row is written and not yet committed
add_category_execute(c) ==
    /\ request[c].pc = "connected"
    /\ write_lock_free(c)
    /\ IF IntegrityError(categories, thread_name(c), thread_slug(c))
       THEN /\ request' = [request EXCEPT ![c].pc = "done"]
            /\ response' = [response EXCEPT ![c] =
                    Redirect(Url(<<"/admin">>), "slug/name already exists", Db(1, 1, 0))]
       ELSE /\ request' = [request EXCEPT ![c].pc = "inserted"]
            /\ UNCHANGED response
    /\ UNCHANGED <<store, session, ADMIN_PASSWORD>>

\* con.commit(), flash and con.close()
add_category_commit(c) ==
    /\ request[c].pc = "inserted"
    /\ LET ins == InsertCategory(categories, sqlite_sequence, thread_name(c), thread_slug(c))
       IN  /\ categories' = ins.cats
           /\ sqlite_sequence' = ins.seq
    /\ request' = [request EXCEPT ![c].pc = "done"]
    /\ response' = [response EXCEPT ![c] =
            Redirect(Url(<<"/admin">>), "Category added", Db(1, 1, 1))]
    /\ UNCHANGED <<posts, contact_messages, session, ADMIN_PASSWORD>>

\* return redirect(...): the response is sent and the thread ends
add_category_return(c) ==
    /\ request[c].pc = "done"
    /\ request' = [request EXCEPT ![c] = NoThread]
    /\ response' = [response EXCEPT ![c] = NoResponse]
    /\ UNCHANGED <<store, session, ADMIN_PASSWORD>>

\* the state after create_app(), with each caller logged in or not
InitConcurrent ==
    /\ categories = init_db(<<>>, EmptySequence).cats
    /\ sqlite_sequence = init_db(<<>>, EmptySequence).seq
    /\ posts = <<>>
    /\ contact_messages = <<>>
    /\ session \in [Callers -> {EmptySession, AdminSession}]
    /\ ADMIN_PASSWORD = Some(<<"p","w">>)
    /\ request = [c \in Callers |-> NoThread]
    /\ response = [c \in Callers |-> NoResponse]

NextConcurrent ==
    \/ \E c \in Callers : add_category_begin(c)
    \/ \E c \in Callers : add_category_busy(c)
    \/ \E c \in Callers : add_category_execute(c)
    \/ \E c \in Callers : add_category_commit(c)
    \/ \E c \in Callers : add_category_return(c)

SpecConcurrent == InitConcurrent /\ [][NextConcurrent]_vars

(***************************************************************************)
(* Properties                                                              *)
(***************************************************************************)
Range(f) == {f[i] : i \in DOMAIN f}

\* the ids of the stored posts that are drafts, and of those that are published
DraftIds == {posts[i].id : i \in {j \in 1..Len(posts) : posts[j].is_published # 1}}
PublishedIds == {posts[i].id : i \in {j \in 1..Len(posts) : posts[j].is_published = 1}}

\* the slugs a category page can be asked for: the inputs and every slug in use
AllSlugs ==
    SlugInputs \cup {categories[i].slug : i \in 1..Len(categories)}
               \cup {posts[i].category_slug : i \in 1..Len(posts)}

\* the post ids a response to a public read shows
HomeIds(r) ==
    Range(Ids(r.context.jobs)) \cup Range(Ids(r.context.results))
    \cup Range(Ids(r.context.schemes)) \cup Range(Ids(r.context.examcutoffs))
    \cup Range(Ids(r.context.current_affairs)) \cup Range(Ids(r.context.latest))
CategoryIds(r) == IF r.status = 200 THEN Range(Ids(r.context.posts)) ELSE {}
PostIds(r) == IF r.status = 200 THEN {r.context.post.id} ELSE {}
SearchIds(r) == Range(Ids(r.context.posts))

\* the post ids the response to the request of kind op shows
ShownIds(op, r) ==
    IF op = "home" THEN HomeIds(r)
    ELSE IF op = "category" THEN CategoryIds(r)
    ELSE IF op = "post" THEN PostIds(r)
    ELSE IF op = "search" THEN SearchIds(r)
    ELSE {}

\* C1: a post whose is_published is false is returned by no public read: no
\* home-feed section, no category listing, not the single-post fetch (which
\* yields NotFound), and no search result; this holds of what the reads
\* would return in every reachable store state (each is met with the server
\* waiting for a request) and of every response given.
C1_DraftsNeverPublic ==
    /\ Idle =>
         \A id \in DraftIds :
             /\ id \notin HomeIds(home_response)
             /\ \A slug \in AllSlugs : id \notin CategoryIds(category_response(slug))
             /\ post_response(id).status = 404
             /\ \A q \in QueryInputs : id \notin SearchIds(search_response(q))
    /\ ShownIds(request.op, response) \cap DraftIds = {}

\* a search was answered with a published post while a draft is stored
C1_Witness ==
    /\ request.op = "search"
    /\ SearchIds(response) # {}
    /\ DraftIds # {}

GuardedOps == {"admin_dashboard", "admin_messages", "admin_add_category",
               "admin_add_post", "admin_edit_post", "admin_edit_post_post",
               "admin_delete_post"}

\* C2: every guarded operation invoked by a caller whose session is not
\* authenticated answers with a redirect to the login path and leaves the
\* categories, posts and contact_messages tables unchanged (no connection
\* to the database is opened at all).
C2_GuardRedirectsWithoutWrites ==
    [][(Idle /\ request'.op \in GuardedOps /\ ~IsAdmin(request'.caller))
        => /\ response'.status = 302
           /\ response'.location.path = <<"/admin/login">>
           /\ response'.db = Db(0, 0, 0)
           /\ UNCHANGED <<categories, posts, contact_messages, sqlite_sequence>>]_vars

\* an unauthenticated caller asked to delete a post that exists
C2_Witness ==
    /\ request.op = "admin_delete_post"
    /\ ~IsAdmin(request.caller)
    /\ response.location.path = <<"/admin/login">>
    /\ \E i \in 1..Len(posts) : posts[i].id = request.args.post_id

\* C3: while ADMIN_PASSWORD is not configured (unset or empty) every login
\* attempt fails, whatever the username and password: it is answered with
\* a redirect back to the login page, and no session becomes authenticated.
C3_LoginDisabledWithoutSecret ==
    [][~Truthy(ADMIN_PASSWORD)
        => /\ \A c \in Callers : IsAdmin(c)' => IsAdmin(c)
           /\ (Idle /\ request'.op = "admin_login_post")
                => /\ session' = session
                   /\ response'.status = 302
                   /\ response'.location = Url(<<"/admin/login">>)
                   /\ response'.flash = "admin login disabled"]_vars

\* ADMIN_PASSWORD is the empty string and a login with username admin and a
\* blank password was refused
C3_Witness ==
    /\ ADMIN_PASSWORD = Some(<<>>)
    /\ request.op = "admin_login_post"
    /\ Field(request.args.username) = admin
    /\ Field(request.args.password) = <<>>
    /\ ~IsAdmin(request.caller)


\* the test of admin_required on the session the step leaves
IsAdminAfter(c) == SessionGet(session'[c], "admin")

\* the login form as sent matches the credential: the username is the
\* literal admin and the password is the configured secret
RawMatch(form) ==
    /\ form.username = Some(admin)
    /\ Truthy(ADMIN_PASSWORD)
    /\ form.password = ADMIN_PASSWORD

\* the login form matches after the handler has trimmed both fields
TrimmedMatch(form) ==
    /\ Field(form.username) = admin
    /\ Truthy(ADMIN_PASSWORD)
    /\ Some(Field(form.password)) = ADMIN_PASSWORD

\* C4 as stated: a login attempt whose username equals 'admin' and whose
\* password equals the configured secret authenticates the caller's session,
\* and any other login attempt leaves an unauthenticated session
\* unauthenticated.
C4_LoginIffExactMatch ==
    [][(Idle /\ request'.op = "admin_login_post")
        => IF RawMatch(request'.args)
           THEN IsAdminAfter(request'.caller)
           ELSE ~IsAdmin(request'.caller) => ~IsAdminAfter(request'.caller)]_vars

\* C4, amended: a login attempt whose username, after trimming, equals
\* 'admin' and whose password, after trimming, equals the configured
\* non-empty secret authenticates the caller's session; any other login
\* attempt leaves every session as it was; and a session becomes
\* authenticated only by such a matching login attempt of its own caller.
C4_LoginIffTrimmedMatch ==
    [][/\ (Idle /\ request'.op = "admin_login_post")
            => IF TrimmedMatch(request'.args)
               THEN /\ IsAdminAfter(request'.caller)
                    /\ response'.flash = "Admin login successful"
               ELSE /\ session' = session
                    /\ response'.location = Url(<<"/admin/login">>)
       /\ \A c \in Callers :
            (~IsAdmin(c) /\ IsAdmin(c)')
                => /\ request'.op = "admin_login_post"
                   /\ request'.caller = c
                   /\ TrimmedMatch(request'.args)]_vars

\* a login whose username is not literally 'admin' authenticated the caller
C4_Witness ==
    /\ request.op = "admin_login_post"
    /\ request.args.username # Some(admin)
    /\ TrimmedMatch(request.args)
    /\ IsAdmin(request.caller)
    /\ response.flash = "Admin login successful"

\* C5: logout leaves the caller's session unauthenticated and empty,
\* whatever it was before; from then on every guarded operation of that
\* caller is redirected to the login page, and the session can become
\* authenticated again only by a successful login of that caller.
C5_LogoutThenGuarded ==
    [][/\ (Idle /\ request'.op = "admin_logout")
            => /\ session'[request'.caller] = EmptySession
               /\ ~IsAdminAfter(request'.caller)
       /\ \A c \in Callers :
            (~IsAdmin(c) /\ IsAdmin(c)')
                => /\ request'.op = "admin_login_post"
                   /\ request'.caller = c
                   /\ response'.flash = "Admin login successful"
       /\ (Idle /\ request'.op \in GuardedOps /\ ~IsAdmin(request'.caller))
            => response'.location = LoginUrl(request'.path)]_vars

\* posts exist, so a caller was authenticated, yet nobody is any more (only
\* logout ends a session), and a guarded request has just been redirected
C5_Witness ==
    /\ posts # <<>>
    /\ \A c \in Callers : session[c] = EmptySession
    /\ request.op = "admin_add_post"
    /\ response.location = LoginUrl(<<"/admin/post/add">>)


CategoryNames == {categories[i].name : i \in 1..Len(categories)}
CategorySlugs == {categories[i].slug : i \in 1..Len(categories)}

\* no two rows of a table of categories share a name or a slug
UniqueCategories(cats) ==
    \A i, j \in 1..Len(cats) :
        i # j => cats[i].name # cats[j].name /\ cats[i].slug # cats[j].slug

\* the rejection admin_add_category reports for a duplicate
DuplicateKey == "slug/name already exists"

\* C6 as stated: a category creation by an authenticated admin with a name
\* equal to an existing name, or a slug equal after trimming and lowercasing
\* to an existing slug, reports a duplicate-key rejection and leaves the
\* categories as they were; names and slugs are unique in every state.
C6_DuplicateAlwaysReported ==
    [][/\ (/\ Idle
           /\ request'.op = "admin_add_category"
           /\ IsAdmin(request'.caller)
           /\ \/ OrEmpty(request'.args.name) \in CategoryNames
              \/ Lower(Field(request'.args.slug)) \in CategorySlugs)
            => /\ response'.flash = DuplicateKey
               /\ categories' = categories
       /\ UniqueCategories(categories)
       /\ categories' # categories => UniqueCategories(categories')]_vars

\* C6, amended: a category creation by an authenticated admin whose name and
\* slug are both non-empty after trimming, and whose trimmed name equals an
\* existing name or whose trimmed, lowercased slug equals an existing slug,
\* reports a duplicate-key rejection; when the other field is empty after
\* trimming the request is rejected as missing a required field instead; in
\* both cases the categories are left exactly as they were, and names and
\* slugs are unique in every state.
C6_DuplicateReportedWhenComplete ==
    [][/\ (/\ Idle
           /\ request'.op = "admin_add_category"
           /\ IsAdmin(request'.caller)
           /\ \/ Field(request'.args.name) \in CategoryNames
              \/ Lower(Field(request'.args.slug)) \in CategorySlugs)
            => /\ categories' = categories
               /\ sqlite_sequence' = sqlite_sequence
               /\ response'.db.commits = 0
               /\ response'.flash =
                    IF Field(request'.args.name) # <<>> /\ Field(request'.args.slug) # <<>>
                    THEN DuplicateKey
                    ELSE "Category name + slug required."
       /\ UniqueCategories(categories)
       /\ categories' # categories => UniqueCategories(categories')]_vars

\* a slug that only lowercasing makes equal to a stored one was rejected as a
\* duplicate, after a category had been added
C6_Witness ==
    /\ request.op = "admin_add_category"
    /\ response.flash = DuplicateKey
    /\ Field(request.args.slug) \notin CategorySlugs
    /\ Lower(Field(request.args.slug)) \in CategorySlugs
    /\ Len(categories) > Len(seeds)

\* the <loc> urls of a sitemap body, in order
SitemapLocs(body) ==
    LET locs == SelectSeq(body, LAMBDA l : l # <<>> /\ l[1] = "    <loc>")
    IN  [i \in 1..Len(locs) |-> SubSeq(locs[i], 2, Len(locs[i]) - 1)]

\* the number of url entries of a sitemap body
SitemapEntries(body) == Len(SelectSeq(body, LAMBDA l : l = <<"  <url>">>))

\* a sitemap body for the base url lists the root, then exactly the category
\* urls, then exactly the urls of the published posts, each once
SitemapRight(body, base_url) ==
    LET locs == SitemapLocs(body)
        nc == Len(categories)
        np == Cardinality(PublishedIds)
    IN  /\ SitemapEntries(body) = 1 + nc + np
        /\ Len(locs) = 1 + nc + np
        /\ locs[1] = base_url \o <<"/">>
        /\ {locs[i] : i \in 2..(1 + nc)}
             = {base_url \o <<"/category/">> \o slug : slug \in CategorySlugs}
        /\ {locs[i] : i \in (2 + nc)..(1 + nc + np)}
             = {base_url \o <<"/post/", ToString(id)>> : id \in PublishedIds}
        /\ Cardinality(Range(locs)) = Len(locs)
        /\ \A id \in DraftIds : base_url \o <<"/post/", ToString(id)>> \notin Range(locs)

\* C7: in every store state the sitemap has exactly 1 + |categories| +
\* |published posts| url entries: the site root, then one url per category
\* slug, then one url per published post, without duplicates and without an
\* entry for a draft; this holds of every sitemap a reachable store can
\* produce (each store is met with the server waiting for a request) and of
\* every sitemap served.
C7_SitemapEntries ==
    /\ Idle =>
         \A host_url \in HostUrlInputs : \A r \in sitemap_responses(host_url) :
             SitemapRight(r.context.body, RStripSlash(host_url))
    /\ request.op = "sitemap"
         => SitemapRight(response.context.body, RStripSlash(request.args.host_url))

\* a sitemap was served while an added category, a published post and a
\* draft were stored
C7_Witness ==
    /\ request.op = "sitemap"
    /\ Len(categories) > Len(seeds)
    /\ PublishedIds # {}
    /\ DraftIds # {}


\* q occurs in t as a run of consecutive characters, letters compared
\* without regard to case (the collation LIKE applies)
Contains(t, q) ==
    \E k \in 0..(Len(t) - Len(q)) :
        \A j \in 1..Len(q) : LowerChar(t[k + j]) = LowerChar(q[j])

\* the stored post with the given id
PostById(id) == posts[CHOOSE i \in 1..Len(posts) : posts[i].id = id]

\* C8: for a query q that is non-empty after trimming, search returns only
\* posts that are published and that contain q as a substring of title,
\* summary or content, also when q is made of characters such as % or _.
C8_SearchOnlySubstringMatches ==
    (request.op = "search" /\ Field(request.args.q) # <<>>)
        => \A id \in SearchIds(response) :
             /\ id \in PublishedIds
             /\ \/ Contains(PostById(id).title, Field(request.args.q))
                \/ Contains(PostById(id).summary, Field(request.args.q))
                \/ Contains(PostById(id).content, Field(request.args.q))

\* C9: a search whose query is empty or whitespace-only after trimming
\* returns the empty sequence without touching storage: no connection to
\* the database is opened and no query is issued.
C9_EmptySearchTouchesNoStorage ==
    (request.op = "search" /\ Field(request.args.q) = <<>>)
        => /\ response.context.posts = <<>>
           /\ response.db.connects = 0
           /\ response.db.executes = 0

PublicReadOps == {"home", "category", "post", "search", "sitemap"}

\* the ids of the stored posts a response to a public read shows
ReadShows(op, r) ==
    IF op = "sitemap"
    THEN {posts[i].id : i \in {j \in 1..Len(posts) :
              \E host_url \in HostUrlInputs :
                  RStripSlash(host_url) \o <<"/post/", ToString(posts[j].id)>>
                      \in Range(SitemapLocs(r.context.body))}}
    ELSE ShownIds(op, r)

\* C10: an admin edit that turns a published post into a draft has
\* committed the new flag when it completes; the store is not changed by
\* handing the response to the caller; and every public read (home feed,
\* category listing, single-post fetch, search, sitemap) answers from the
\* store as it is when the read starts, showing no post that is a draft at
\* that moment. So the very next public read of any kind after the edit no
\* longer returns the post.
C10_UnpublishVisibleAtOnce ==
    [][/\ (/\ Idle
           /\ request'.op = "admin_edit_post_post"
           /\ IsAdmin(request'.caller)
           /\ request'.args.is_published # Some(<<"1">>)
           /\ request'.args.post_id \in PublishedIds)
            => request'.args.post_id \in DraftIds'
       /\ ~Idle => store' = store
       /\ (Idle /\ request'.op \in PublicReadOps)
            => ReadShows(request'.op, response') \cap DraftIds = {}]_vars

\* a single-post fetch of a stored post that an edit had turned into a draft
\* was answered NotFound
C10_Witness ==
    /\ request.op = "post"
    /\ response.status = 404
    /\ request.args.post_id \in DraftIds

(***************************************************************************)
(* Identity and ordering of posts                                          *)
(***************************************************************************)
\* a sequence of rows whose ids strictly decrease
StrictlyDescending(rows) ==
    \A i \in 1..Len(rows) : \A j \in 1..Len(rows) : i < j => rows[i].id > rows[j].id

\* the post listings a response carries
Listings(op, r) ==
    IF op = "home"
    THEN {r.context.jobs, r.context.results, r.context.schemes,
          r.context.examcutoffs, r.context.current_affairs, r.context.latest}
    ELSE IF op \in {"category", "search", "admin_dashboard"} /\ r.status = 200
    THEN {r.context.posts}
    ELSE {}

\* the section of the home page that shows the category with this slug
HomeSection(r, slug) ==
    IF slug = job THEN r.context.jobs
    ELSE IF slug = result THEN r.context.results
    ELSE IF slug = scheme THEN r.context.schemes
    ELSE IF slug = examcutoff THEN r.context.examcutoffs
    ELSE r.context.current_affairs

\* the request just served was a createPost that stored a post
PostAdded == request.op = "admin_add_post" /\ response.flash = "Post added"

\* C11: no stored post has an id above the largest id ever assigned, which
\* never decreases; a post the admin creates gets an id above it (so above
\* the id of every post ever stored, deleted ones included), and when its
\* category has a home section, a home read of the store it was added to
\* shows it first in that section and first in the latest feed; every post
\* listing of every response is in strictly descending id order.
C11_NewPostHasHighestId ==
    [][ /\ \A i \in 1..Len(posts) : posts[i].id <= sqlite_sequence.posts
        /\ sqlite_sequence'.posts >= sqlite_sequence.posts
        /\ PostAdded' =>
             LET new == posts'[Len(posts')]
             IN  /\ Len(posts') = Len(posts) + 1
                 /\ new.id > sqlite_sequence.posts
                 /\ new.id <= sqlite_sequence'.posts
                 /\ \A i \in 1..Len(posts) : new.id > posts[i].id
                 /\ home_response'.context.latest[1].id = new.id
                 /\ new.category_slug \in HomeSlugs =>
                      HomeSection(home_response', new.category_slug)[1].id = new.id
        /\ \A l \in Listings(request'.op, response') : StrictlyDescending(l)
      ]_vars

\* a post was deleted, and the post created after that is in the jobs
\* section, below no other post
C11_Witness ==
    /\ PostAdded
    /\ Len(posts) = 1
    /\ posts[1].id = 2
    /\ posts[1].category_slug = job

(***************************************************************************)
(* Home feed caps                                                          *)
(***************************************************************************)
\* the ids of the published posts of a category, and of all published posts
PublishedIn(slug) ==
    {posts[i].id : i \in {j \in 1..Len(posts) :
        posts[j].is_published = 1 /\ posts[j].category_slug = slug}}

\* rows are the cap highest ids of the set ids, highest first
HighestOf(rows, ids, cap) ==
    LET shown == Range(Ids(rows))
    IN  /\ Len(rows) <= cap
        /\ StrictlyDescending(rows)
        /\ shown \subseteq ids
        /\ Len(rows) = IF Cardinality(ids) < cap THEN Cardinality(ids) ELSE cap
        /\ \A a \in shown : \A b \in ids \ shown : a > b

\* C12: whatever the number of published posts, the home page shows at most
\* 8 jobs, 6 results, 6 schemes, 6 examcutoffs, 8 current-affairs posts and
\* 10 latest posts, each section being the highest-id published posts of its
\* category (of all categories for the latest feed).
C12_HomeCaps ==
    request.op = "home" =>
        /\ HighestOf(response.context.jobs, PublishedIn(job), 8)
        /\ HighestOf(response.context.results, PublishedIn(result), 6)
        /\ HighestOf(response.context.schemes, PublishedIn(scheme), 6)
        /\ HighestOf(response.context.examcutoffs, PublishedIn(examcutoff), 6)
        /\ HighestOf(response.context.current_affairs, PublishedIn(currentaffairs), 8)
        /\ HighestOf(response.context.latest, PublishedIds, 10)

\* a home page with a full jobs section and a full latest feed, read while
\* more published jobs than either shows are stored next to a draft
C12_Witness ==
    /\ request.op = "home"
    /\ Len(response.context.jobs) = 8
    /\ Len(response.context.latest) = 10
    /\ Cardinality(PublishedIn(job)) > 10
    /\ DraftIds # {}

(***************************************************************************)
(* robots.txt                                                              *)
(***************************************************************************)
\* a line of robots.txt that disallows the admin path prefix
DisallowsAdmin(line) ==
    /\ line # <<>>
    /\ \/ line[1] \in {"Disallow: /admin", "Disallow: /admin/"}
       \/ /\ Len(line) > 1
          /\ line[1] \in {"Disallow:", "Disallow: "}
          /\ line[2] \in {"/admin", "/admin/"}

\* C13: the robots policy built for a base URL disallows the admin path
\* prefix and points to the sitemap URL under that base URL.
C13_RobotsDisallowsAdmin ==
    request.op = "robots" =>
        LET lines == response.context.body
        IN  /\ \E i \in 1..Len(lines) : DisallowsAdmin(lines[i])
            /\ \E i \in 1..Len(lines) :
                 lines[i] = <<"Sitemap: ">> \o RStripSlash(request.args.host_url)
                            \o <<"/sitemap.xml">>

(***************************************************************************)
(* Bootstrap                                                               *)
(***************************************************************************)
\* C14: bootstrap on an empty store yields exactly the five seed categories
\* job, result, scheme, examcutoff and currentaffairs, and bootstrap run
\* again on any store reached afterwards changes no category, no post and no
\* contact message.
C14_BootstrapIdempotent ==
    [][ /\ LET fresh == init_db(<<>>, EmptySequence).cats
           IN  /\ Len(fresh) = 5
               /\ {fresh[i].slug : i \in 1..Len(fresh)} = HomeSlugs
        /\ request'.op = "create_app" =>
             /\ categories' = categories
             /\ posts' = posts
             /\ contact_messages' = contact_messages
      ]_vars

\* bootstrap has just run again on a store that holds an added category, a
\* post and a contact message
C14_Witness ==
    /\ request.op = "create_app"
    /\ Len(categories) > 5
    /\ posts # <<>>
    /\ contact_messages # <<>>

(***************************************************************************)
(* Creating posts                                                          *)
(***************************************************************************)
\* the request being served is a createPost that passed the guard
AddServed(req, resp) ==
    req.op = "admin_add_post" /\ resp.location = Url(<<"/admin">>)

\* C15: a createPost by an authenticated admin with title, category slug,
\* summary or content empty after trimming is rejected and writes no post;
\* with all four non-empty it adds exactly one post, whose fields are the
\* trimmed ones, with is_published true and with source_url absent when the
\* source_url sent is blank.
C15_CreatePostValidation ==
    [][ AddServed(request', response') =>
          LET form == request'.args
              blank(x) == Strip(OrEmpty(x)) = <<>>
          IN  IF blank(form.title) \/ blank(form.category_slug)
                 \/ blank(form.summary) \/ blank(form.content)
              THEN /\ posts' = posts
                   /\ response'.flash = "Title, Category, Summary, Content required."
              ELSE /\ Len(posts') = Len(posts) + 1
                   /\ SubSeq(posts', 1, Len(posts)) = posts
                   /\ LET new == posts'[Len(posts')]
                      IN  /\ new.is_published = 1
                          /\ new.title = Strip(OrEmpty(form.title))
                          /\ new.category_slug = Strip(OrEmpty(form.category_slug))
                          /\ new.summary = Strip(OrEmpty(form.summary))
                          /\ new.content = Strip(OrEmpty(form.content))
                          /\ blank(form.source_url) => new.source_url = None
                          /\ ~blank(form.source_url) =>
                               new.source_url = Some(Strip(OrEmpty(form.source_url)))
                   /\ response'.flash = "Post added"
      ]_vars

\* a createPost whose only blank field is content has been rejected
C15_Witness ==
    /\ AddServed(request, response)
    /\ response.flash = "Title, Category, Summary, Content required."
    /\ request.args.content = None
    /\ Strip(OrEmpty(request.args.title)) # <<>>
    /\ posts # <<>>
    /\ posts[Len(posts)].source_url = None

(***************************************************************************)
(* The path carried through login                                          *)
(***************************************************************************)
\* C16: the guard answers an unauthenticated request for a path with a
\* redirect to the login entry point that carries that path; the login page
\* asked for with a path hands that path to its form; and a successful
\* login whose form carries a path forwards the caller to it, to /admin
\* when the form carries none.
C16_LoginForwardsToRequestedPath ==
    [][ /\ (Idle /\ request'.op \in GuardedOps /\ ~IsAdmin(request'.caller))
             => response' = Redirect(LoginUrl(request'.path), "", Db(0, 0, 0))
        /\ (request'.op = "admin_login" /\ request'.args.next # None)
             => response'.context.next = request'.args.next[1]
        /\ (Idle /\ request'.op = "admin_login_post" /\ TrimmedMatch(request'.args))
             => /\ response'.status = 302
                /\ response'.location =
                     IF request'.args.next \in {None, Some(<<>>)}
                     THEN Url(<<"/admin">>)
                     ELSE Url(request'.args.next[1])
      ]_vars

\* a login whose form carried the path of a guarded page has succeeded and
\* forwards to that page
C16_Witness ==
    /\ request.op = "admin_login_post"
    /\ request.args.next = Some(<<"/admin/messages">>)
    /\ IsAdmin(request.caller)
    /\ response.location = Url(<<"/admin/messages">>)

(***************************************************************************)
(* Sessions of distinct callers                                            *)
(***************************************************************************)
\* the guarded request being served was let through to its handler
PassedGuard(req, resp) ==
    req.op \in GuardedOps /\ resp.location # LoginUrl(req.path)

\* C17: the authenticated flag is per caller: a request by one caller (a
\* login and a logout in particular) leaves the session of every other
\* caller as it was; a caller's session becomes authenticated only by a
\* successful login of that caller; and a caller passes the guard only if
\* its own session is authenticated.
C17_SessionPerCaller ==
    [][ /\ \A b \in Callers : b # request'.caller => session'[b] = session[b]
        /\ \A b \in Callers : (~IsAdmin(b) /\ IsAdminAfter(b)) =>
             /\ request'.op = "admin_login_post"
             /\ request'.caller = b
             /\ TrimmedMatch(request'.args)
        /\ (Idle /\ PassedGuard(request', response')) => IsAdmin(request'.caller)
      ]_vars

\* while caller A is authenticated, a guarded request of caller B, who is
\* not, is sent to the login page
C17_Witness ==
    /\ request.op \in GuardedOps
    /\ request.caller = "B"
    /\ IsAdmin("A")
    /\ ~IsAdmin("B")
    /\ ~PassedGuard(request, response)

(***************************************************************************)
(* Concurrent category creation                                            *)
(***************************************************************************)
\* thread c has built the response with this message
Answered(c, flash) == request[c].pc = "done" /\ response[c].flash = flash

\* the rows of the categories table with this name, and with this slug
RowsNamed(name) == {i \in 1..Len(categories) : categories[i].name = name}
RowsWithSlug(slug) == {i \in 1..Len(categories) : categories[i].slug = slug}

C19_DeleteIdempotent ==
    [][ (Idle /\ request'.op = "admin_delete_post" /\ IsAdmin(request'.caller)) =>
          LET id == request'.args.post_id
              kept == {i \in 1..Len(posts) : posts[i].id # id}
          IN  /\ Len(posts') = Cardinality(kept)
              /\ \A i \in 1..Len(posts') : posts'[i].id # id
              /\ \A i \in kept : \E j \in 1..Len(posts') : posts'[j] = posts[i]
              /\ kept = 1..Len(posts) => posts' = posts
              /\ categories' = categories
              /\ contact_messages' = contact_messages
              /\ sqlite_sequence' = sqlite_sequence
              /\ response' = Redirect(Url(<<"/admin">>), "Post deleted", Db(1, 1, 1))
              /\ delete_post(posts', id) = posts'
      ]_vars

\* a delete of an id that was assigned and is no longer stored has been
\* answered, with another post and a contact message still stored
C19_Witness ==
    /\ request.op = "admin_delete_post"
    /\ response.flash = "Post deleted"
    /\ request.args.post_id <= sqlite_sequence.posts
    /\ \A i \in 1..Len(posts) : posts[i].id # request.args.post_id
    /\ posts # <<>>
    /\ contact_messages # <<>>

(***************************************************************************)
(* Required fields of stored posts                                         *)
(***************************************************************************)
\* C20: in every store state reached by createPost, updatePost and
\* deletePost, every stored post has a non-empty title, category_slug,
\* summary and content; an updatePost leaves the id and created_at of every
\* post as they were and creates no row when no post has the id.
C20_RequiredFieldsPreserved ==
    [][ /\ \A i \in 1..Len(posts') :
             /\ posts'[i].title # <<>>
             /\ posts'[i].category_slug # <<>>
             /\ posts'[i].summary # <<>>
             /\ posts'[i].content # <<>>
        /\ (Idle /\ request'.op = "admin_edit_post_post") =>
             /\ Len(posts') = Len(posts)
             /\ \A i \in 1..Len(posts) :
                  /\ posts'[i].id = posts[i].id
                  /\ posts'[i].created_at = posts[i].created_at
      ]_vars

====
